---- MODULE Spec2Model ----
(***************************************************************************)
(* Task store and reminder scheduler of the Telegram to-do bot (bot.py).   *)
(*                                                                         *)
(* All accesses to task_manager happen on the asyncio event loop: command  *)
(* handlers run there, and the timer thread only submits the coroutine     *)
(* send_reminders_sync to that loop.  A handler's store call is therefore  *)
(* one atomic step, and the coroutine is atomic between two awaits; its    *)
(* only await is bot.send_message, during which handlers and other         *)
(* coroutines may run.                                                     *)
(*                                                                         *)
(* Time is counted in minutes; a day has DayLen minutes.  A stored date is *)
(* its day number and a stored time its minute of the day.                 *)
(***************************************************************************)
EXTENDS Integers, Sequences, FiniteSets, TLC

\* ---------------------------------------------------------------- bounds
MaxTasks == 2
MaxClock == 1
DayLen == 1
MaxInFlight == 2

\* ------------------------------------------------------------ constants
\* Python's None in a field of a task
None == -1
\* in scheduled_date or scheduled_time: a string strptime raises ValueError on
Malformed == -2
\* the default of add_task's priority, and of the handlers
DefaultPriority == "medium"

Users == {1, 2}
Texts == {"a"}
InputPriorities == {DefaultPriority}
Days == 0..(MaxClock \div DayLen)
Times == 0..(DayLen - 1)
TaskIds == 1..(MaxTasks + 1)

VARIABLES
    tasks,      \* task_manager.tasks: the in-memory list of task dicts
    disk,       \* the content of tasks.json
    clock,      \* datetime.now(), in minutes
    ret,        \* the last store call of a handler and what it returned, or the
                \* error the handler replied with before any store call
    coros,      \* the send_reminders_sync coroutines on the event loop
    future,     \* the future run_check waits on: none, pending, done, raised
    timers,     \* number of pending threading.Timer objects
    sent,       \* history: successful send_message calls per task
    failed,     \* history: tasks whose last send_message raised
    overlapped, \* history: <<t, u>>: t was fired by a tick during which u was created
    shown,      \* the last query of the store and the tasks it returned
    running     \* application.run_polling has not been told to stop

vars == <<tasks, disk, clock, ret, coros, future, timers, sent, failed, overlapped,
          shown, running>>

\* ------------------------------------------------------------ TaskManager

\* save_tasks: json.dump of the whole list
SaveTasks(ts) == ts

\* an id counted from the tasks still to do
NextTaskIdActive(ts) == Cardinality({i \in 1..Len(ts) : ~ts[i].completed}) + 1

\* the id add_task assigns
NextTaskId(ts) == Len(ts) + 1

\* the dict add_task builds
NewTask(ts, text, user_id, priority, scheduled_date, scheduled_time, now) ==
    [id             |-> NextTaskId(ts),
     text           |-> text,
     user_id        |-> user_id,
     priority       |-> priority,
     completed      |-> FALSE,
     created_at     |-> now,
     completed_at   |-> None,
     scheduled_date |-> scheduled_date,
     scheduled_time |-> scheduled_time]

\* add_task: the list after the append
AddTask(ts, text, user_id, priority, scheduled_date, scheduled_time, now) ==
    Append(ts, NewTask(ts, text, user_id, priority, scheduled_date, scheduled_time, now))

\* a match on the id alone
DoneMatchesAnyOwner(task, user_id, task_id) == task.id = task_id

\* mark_task_done: the condition of its if
DoneMatches(task, user_id, task_id) ==
    task.id = task_id /\ task.user_id = user_id

\* mark_task_done: the positions the for loop would stop at
DoneCandidates(ts, user_id, task_id) ==
    {i \in 1..Len(ts) : DoneMatches(ts[i], user_id, task_id)}

Min(S) == CHOOSE x \in S : \A y \in S : x <= y

\* a completion that puts the task back on the schedule
MarkDoneRescheduling(task, now) ==
    [task EXCEPT !.completed = TRUE, !.completed_at = now,
                 !.scheduled_date = 0, !.scheduled_time = 0]

\* a completion that also stamps the creation time anew
MarkDoneRestamping(task, now) ==
    [task EXCEPT !.completed = TRUE, !.completed_at = now, !.created_at = now]

\* a completion that sets no timestamp
MarkDoneNoStamp(task, now) == [task EXCEPT !.completed = TRUE]

\* mark_task_done: what it does to the task it found
MarkDone(task, now) ==
    [task EXCEPT !.completed = TRUE, !.completed_at = now]

\* mark_task_done: the list afterwards
MarkTaskDone(ts, user_id, task_id, now) ==
    IF DoneCandidates(ts, user_id, task_id) = {}
    THEN ts
    ELSE LET i == Min(DoneCandidates(ts, user_id, task_id))
         IN  [ts EXCEPT ![i] = MarkDone(ts[i], now)]

\* mark_task_done: its return value
MarkTaskDoneRet(ts, user_id, task_id) ==
    DoneCandidates(ts, user_id, task_id) # {}

\* get_user_tasks: the values of its parameter completed
NoFilter == "None"
Filters == {NoFilter, "True", "False"}

\* get_user_tasks: the condition of the list comprehension of line 135
UserTaskAny(task, user_id) == task.user_id = user_id

\* a filter that looks at the owner alone
UserTaskWithStatusIgnored(task, user_id, completed) == task.user_id = user_id

\* get_user_tasks: the condition of the list comprehension of lines 136-137,
\* completed being True or False
UserTaskWithStatus(task, user_id, completed) ==
    task.user_id = user_id /\ task.completed = completed

\* get_user_tasks: the tasks it returns, in list order
GetUserTasks(ts, user_id, completed) ==
    IF completed = NoFilter
    THEN SelectSeq(ts, LAMBDA task : UserTaskAny(task, user_id))
    ELSE SelectSeq(ts, LAMBDA task : UserTaskWithStatus(task, user_id, completed = "True"))

\* datetime.now().date() and datetime.fromisoformat(created_at).date(): the
\* day of a minute
DateOf(minute) == minute \div DayLen

\* a candidate whatever its status
TodayCandidateAnyStatus(task, user_id) == task.user_id = user_id

\* get_today_tasks, line 172
TodayCandidate(task, user_id) ==
    task.user_id = user_id /\ task.completed = FALSE

\* get_today_tasks: its for loop from position i of the list
RECURSIVE TodayTasksFrom(_, _, _, _)
TodayTasksFrom(ts, user_id, today, i) ==
    IF i > Len(ts) THEN <<>>
    ELSE LET task == ts[i]
             rest == TodayTasksFrom(ts, user_id, today, i + 1)
         IN  IF TodayCandidate(task, user_id)
             THEN IF DateOf(task.created_at) = today
                  THEN <<task>> \o rest
                  ELSE IF task.scheduled_date # None
                       THEN IF task.scheduled_date = Malformed
                            THEN rest  \* strptime raises ValueError: continue
                            ELSE IF task.scheduled_date = today
                                 THEN <<task>> \o rest
                                 ELSE rest
                       ELSE rest
             ELSE rest

GetTodayTasks(ts, user_id, now) == TodayTasksFrom(ts, user_id, DateOf(now), 1)

\* truthiness of task.get('scheduled_date') and task.get('scheduled_time')
HasSchedule(task) ==
    task.scheduled_date # None /\ task.scheduled_time # None

\* get_scheduled_tasks: the positions of the tasks it returns, in list order
RECURSIVE ScheduledFrom(_, _)
ScheduledFrom(ts, i) ==
    IF i > Len(ts) THEN <<>>
    ELSE IF ~ts[i].completed /\ HasSchedule(ts[i])
         THEN <<i>> \o ScheduledFrom(ts, i + 1)
         ELSE ScheduledFrom(ts, i + 1)

GetScheduledTasks(ts) == ScheduledFrom(ts, 1)

\* ------------------------------------------------------- send_reminders_sync

\* datetime.combine(task_date, task_time)
TaskDatetime(task) == task.scheduled_date * DayLen + task.scheduled_time

\* a comparison that takes every scheduled task as due
IsDueAlways(task, now) == TRUE

\* now >= task_datetime
IsDue(task, now) == now >= TaskDatetime(task)

\* lines 575-576: both strptime calls return
Parses(task) ==
    task.scheduled_date # Malformed /\ task.scheduled_time # Malformed

\* a clear that forgets the time
ClearDateOnly(task) == [task EXCEPT !.scheduled_date = None]

\* a clear that also closes the task
ClearAndComplete(task) ==
    [task EXCEPT !.scheduled_date = None, !.scheduled_time = None, !.completed = TRUE]

\* lines 596-597: the schedule is removed after the message was sent
ClearSchedule(task) ==
    [task EXCEPT !.scheduled_date = None, !.scheduled_time = None]

\* the for loop from position i to its next await: the position of the next
\* task whose message is sent, or 0 when the loop runs to its end.  A task
\* whose date or time does not parse is passed over (lines 600-602)
RECURSIVE NextAwait(_, _, _, _)

\* a handler of ValueError that leaves the loop
AfterValueErrorBreak(ts, scheduled, i, now) == 0

\* lines 600-602: the ValueError of strptime is logged and the loop goes on
\* with the next task
AfterValueError(ts, scheduled, i, now) == NextAwait(ts, scheduled, i + 1, now)

NextAwait(ts, scheduled, i, now) ==
    IF i > Len(scheduled) THEN 0
    ELSE IF HasSchedule(ts[scheduled[i]]) /\ ~Parses(ts[scheduled[i]])
         THEN AfterValueError(ts, scheduled, i, now)
    ELSE IF /\ HasSchedule(ts[scheduled[i]])
            /\ IsDue(ts[scheduled[i]], now)
         THEN i
         ELSE NextAwait(ts, scheduled, i + 1, now)

\* what a handler got back from the store: add_task returns the new id (line
\* 121), mark_task_done returns a boolean (lines 156-157)
Returned(op, id, ok) == [op |-> op, id |-> id, ok |-> ok]

NoCall == Returned("none", 0, FALSE)

\* what a handler got back from a query of the store
Queried(op, user_id, completed, result) ==
    [op |-> op, user_id |-> user_id, completed |-> completed, tasks |-> result]

NoQuery == Queried("none", 0, NoFilter, <<>>)

Init ==
    /\ tasks = <<>>
    /\ disk = <<>>
    /\ clock = 0
    /\ ret = NoCall
    /\ coros = <<>>
    /\ future = "none"
    /\ timers = 1
    /\ sent = [t \in 1..MaxTasks |-> 0]
    /\ failed = {}
    /\ overlapped = {}
    /\ shown = NoQuery
    /\ running = TRUE

\* ------------------------------------------------------------- foreground

\* add_task_command: /add <text> [priority]
AddTaskCommand(user_id, text, priority) ==
    /\ Len(tasks) < MaxTasks
    /\ tasks' = AddTask(tasks, text, user_id, priority, None, None, clock)
    /\ disk' = SaveTasks(tasks')
    /\ ret' = Returned("add", NextTaskId(tasks), TRUE)
    /\ UNCHANGED <<clock, coros, future, timers, sent, failed, overlapped, shown, running>>

\* schedule_command: /schedule <text> <date> <time> [priority], with a date and
\* a time that strptime accepted
ScheduleCommand(user_id, text, priority, scheduled_date, scheduled_time) ==
    /\ Len(tasks) < MaxTasks
    /\ tasks' = AddTask(tasks, text, user_id, priority, scheduled_date, scheduled_time, clock)
    /\ disk' = SaveTasks(tasks')
    /\ ret' = Returned("add", NextTaskId(tasks), TRUE)
    /\ UNCHANGED <<clock, coros, future, timers, sent, failed, overlapped, shown, running>>

\* done_command: /done <id>
DoneCommand(user_id, task_id) ==
    /\ UNCHANGED <<clock, coros, future, timers, sent, failed, overlapped, shown, running>>
    /\ ret' = Returned("done", 0, MarkTaskDoneRet(tasks, user_id, task_id))
    /\ tasks' = MarkTaskDone(tasks, user_id, task_id, clock)
    /\ disk' = IF MarkTaskDoneRet(tasks, user_id, task_id) THEN SaveTasks(tasks') ELSE disk

\* the wall clock moves on
ClockAdvance ==
    /\ clock < MaxClock
    /\ clock' = clock + 1
    /\ UNCHANGED <<tasks, disk, ret, coros, future, timers, sent, failed, overlapped, shown, running>>

\* -------------------------------------------------------------- scheduler

\* a coroutine handed to the event loop that has not started yet.  now,
\* scheduled and the loop position i are its locals; seen (the length of the
\* task list when the coroutine read it) and retry (the tasks of its list
\* whose last send had failed when it read the list) are history
Queued == [pc |-> "queued", now |-> 0, scheduled |-> <<>>, i |-> 0, seen |-> 0, retry |-> {}]

\* a tick that wrote the list as it had read it, not as it is now
TickSaveStale(c, ts) == SaveTasks(SubSeq(ts, 1, c.seen))

\* line 598: what the coroutine c writes to the file after it cleared a
\* schedule: task_manager.tasks as it is now
TickSave(c, ts) == SaveTasks(ts)

\* the coroutines on the loop without the one at position c
RemoveAt(cs, c) == SubSeq(cs, 1, c - 1) \o SubSeq(cs, c + 1, Len(cs))

\* run_check waits for the coroutine at position c
Watched(c) == future = "pending" /\ c = Len(coros)

\* run_check up to future.result: the timer fires and the coroutine is
\* handed to the event loop
RunCheck ==
    /\ timers > 0
    /\ future = "none"
    /\ Len(coros) < MaxInFlight
    /\ coros' = Append(coros, Queued)
    /\ timers' = timers - 1
    /\ future' = "pending"
    /\ UNCHANGED <<tasks, disk, clock, ret, sent, failed, overlapped, shown, running>>

\* the coroutine at position c ends with the given outcome; the future of
\* run_coroutine_threadsafe gets it if run_check still waits for it
Finish(c, outcome) ==
    /\ coros' = RemoveAt(coros, c)
    /\ future' = IF Watched(c) THEN outcome ELSE future

\* the coroutine co, at position c, runs its for loop from position i of its
\* list, over the task list ts, to the next await or to the end of the loop
Continue(c, co, ts, i) ==
    LET j == NextAwait(ts, co.scheduled, i, co.now)
    IN  IF j = 0
        THEN Finish(c, "done")
        ELSE /\ coros' = [coros EXCEPT ![c] = [co EXCEPT !.pc = "awaiting", !.i = j]]
             /\ UNCHANGED future

\* send_reminders_sync from its start to its first await
CoroStart(c) ==
    /\ coros[c].pc = "queued"
    /\ Continue(c,
                [coros[c] EXCEPT !.now = clock,
                                 !.scheduled = GetScheduledTasks(tasks),
                                 !.seen = Len(tasks),
                                 !.retry = {t \in failed : ~tasks[t].completed
                                                            /\ HasSchedule(tasks[t])}],
                tasks, 1)
    /\ UNCHANGED <<tasks, disk, clock, ret, timers, sent, failed, overlapped, shown, running>>

\* the task whose message the coroutine at position c is sending
Awaited(c) == coros[c].scheduled[coros[c].i]

\* send_message returned: the schedule is cleared, the list saved, and the
\* loop goes on to its next await
SendOk(c) ==
    /\ coros[c].pc = "awaiting"
    /\ LET t == Awaited(c)
       IN  /\ tasks' = [tasks EXCEPT ![t] = ClearSchedule(tasks[t])]
           /\ disk' = TickSave(coros[c], tasks')
           /\ sent' = [sent EXCEPT ![t] = @ + 1]
           /\ failed' = failed \ {t}
           /\ overlapped' = overlapped \cup
                  {<<t, u>> : u \in (coros[c].seen + 1)..Len(tasks)}
           /\ Continue(c, coros[c], tasks', coros[c].i + 1)
    /\ UNCHANGED <<clock, ret, timers, shown, running>>

\* send_message raised (a TelegramError, which except ValueError does not
\* catch): the exception leaves the coroutine
SendFail(c) ==
    /\ coros[c].pc = "awaiting"
    /\ Finish(c, "raised")
    /\ failed' = failed \cup {Awaited(c)}
    /\ UNCHANGED <<tasks, disk, clock, ret, timers, sent, overlapped, shown, running>>

\* run_check: future.result returned or re-raised; finally starts the next timer
FutureResult ==
    /\ future \in {"done", "raised"}
    /\ future' = "none"
    /\ timers' = timers + 1
    /\ UNCHANGED <<tasks, disk, clock, ret, coros, sent, failed, overlapped, shown, running>>

\* a run_check that starts no timer after a timeout
FutureTimeoutNoTimer ==
    /\ future = "pending"
    /\ future' = "none"
    /\ UNCHANGED <<tasks, disk, clock, ret, coros, sent, failed, overlapped, shown, running,
                   timers>>

\* run_check: future.result(timeout=10) timed out; the coroutine stays on the
\* loop, and finally starts the next timer
FutureTimeout ==
    /\ future = "pending"
    /\ future' = "none"
    /\ timers' = timers + 1
    /\ UNCHANGED <<tasks, disk, clock, ret, coros, sent, failed, overlapped, shown, running>>

\* the foreground operations that create a task
Create ==
    \/ \E u \in Users, x \in Texts, p \in InputPriorities : AddTaskCommand(u, x, p)
    \/ \E u \in Users, x \in Texts, p \in InputPriorities, d \in Days, m \in Times :
           ScheduleCommand(u, x, p, d, m)

\* the foreground operation that completes a task
Complete == \E u \in Users, k \in TaskIds : DoneCommand(u, k)

Next ==
    \/ Create
    \/ Complete
    \/ ClockAdvance
    \/ RunCheck
    \/ \E c \in 1..Len(coros) : CoroStart(c)
    \/ \E c \in 1..Len(coros) : SendOk(c)
    \/ \E c \in 1..Len(coros) : SendFail(c)
    \/ FutureResult
    \/ FutureTimeout

Spec == Init /\ [][Next]_vars

\* what the timer thread and the event loop get done in the end: a Timer
\* that was started fires (lines 669-671); future.result(timeout=10) returns
\* or raises within its ten seconds (line 661); and the loop runs a coroutine
\* handed to it, whose send_message returns or raises within the time-outs
\* of the HTTP request
Fairness ==
    /\ WF_vars(RunCheck)
    /\ WF_vars(FutureResult \/ FutureTimeout)
    /\ WF_vars(\E c \in 1..Len(coros) : CoroStart(c) \/ SendOk(c) \/ SendFail(c))

\* the bot with a timer thread and an event loop that go on
SpecLive == Init /\ [][Next]_vars /\ Fairness

\* ------------------------------------------- the arguments of the handlers

\* context.args: the words of the message after the command.  A word holds no
\* white space and is not empty, so ' '.join(context.args).split() gives the
\* same words again (lines 423-427, 502-503); the words here are lower case

\* PRIORITIES (line 32), by their English names
Priorities == {"low", DefaultPriority, "high"}

\* ' '.join(words)
RECURSIVE Join(_)
Join(words) ==
    IF words = <<>> THEN ""
    ELSE IF Len(words) = 1 THEN words[1]
         ELSE words[1] \o " " \o Join(Tail(words))

\* the text a user types for a date (DD.MM.YYYY) and for a time (HH:MM)
DateString == [d \in Days |-> ToString(d + 1) \o ".01.2024"]
TimeString == [m \in Times |-> "00:" \o ToString(m)]

\* datetime.strptime(word, '%d.%m.%Y') and datetime.strptime(word, '%H:%M'):
\* the day and the minute the word names, None where strptime raises
\* ValueError
StrpDate(word) ==
    IF \E d \in Days : word = DateString[d]
    THEN CHOOSE d \in Days : word = DateString[d]
    ELSE None

StrpTime(word) ==
    IF \E m \in Times : word = TimeString[m]
    THEN CHOOSE m \in Times : word = TimeString[m]
    ELSE None

\* a handler that replies with the error message named and returns before it
\* calls the store
Rejects(error) ==
    /\ ret' = Returned(error, 0, FALSE)
    /\ UNCHANGED <<tasks, disk, clock, coros, future, timers, sent, failed, overlapped, shown, running>>

\* add_task_command, line 429: the last word is taken as the priority
AddHasPriority(words) == Len(words) > 1 /\ words[Len(words)] \in Priorities

\* add_task_command, lines 426-433: the priority and the text of the task
AddPriority(words) ==
    IF AddHasPriority(words) THEN words[Len(words)] ELSE DefaultPriority

AddText(words) ==
    IF AddHasPriority(words) THEN Join(SubSeq(words, 1, Len(words) - 1)) ELSE Join(words)

\* a handler that takes any arguments
AddArgsMissingNever(args) == FALSE

\* add_task_command, line 415: if not context.args
AddArgsMissing(args) == args = <<>>

\* add_task_command on the words args
AddTaskCommandArgs(user_id, args) ==
    IF AddArgsMissing(args)
    THEN Rejects("no task given")
    ELSE AddTaskCommand(user_id, AddText(args), AddPriority(args))

\* schedule_command, line 493
ScheduleArgsMissing(args) == args = <<>> \/ Len(args) < 3

\* schedule_command, line 507: the last word is taken as the priority
ScheduleHasPriority(words) == Len(words) >= 3 /\ words[Len(words)] \in Priorities

\* schedule_command, lines 506-511
SchedulePriority(words) ==
    IF ScheduleHasPriority(words) THEN words[Len(words)] ELSE DefaultPriority

ScheduleToParse(words) ==
    IF ScheduleHasPriority(words) THEN SubSeq(words, 1, Len(words) - 1) ELSE words

\* schedule_command, line 514: args_to_parse.rsplit(' ', 2), which splits off
\* the last two words when there are three or more
ScheduleParts(words) ==
    LET w == ScheduleToParse(words)
    IN  IF Len(w) >= 3
        THEN <<Join(SubSeq(w, 1, Len(w) - 2)), w[Len(w) - 1], w[Len(w)]>>
        ELSE w

\* a handler that takes any word as a date
DateRejectedNever(word) == FALSE

\* schedule_command, lines 529-536 and 539-546: strptime raises ValueError
DateRejected(word) == StrpDate(word) = None

TimeRejected(word) == StrpTime(word) = None

\* what the store holds for a date or a time given as word: the day or the
\* minute the word names
StoredDate(word) == IF StrpDate(word) = None THEN Malformed ELSE StrpDate(word)

StoredTime(word) == IF StrpTime(word) = None THEN Malformed ELSE StrpTime(word)

\* schedule_command on the words args; add_task gets the two words as they
\* were typed (line 549)
ScheduleCommandArgs(user_id, args) ==
    LET parts == ScheduleParts(args)
    IN  IF ScheduleArgsMissing(args) THEN Rejects("no task, date and time given")
        ELSE IF Len(parts) < 3 THEN Rejects("wrong format")
        ELSE IF DateRejected(parts[2]) THEN Rejects("wrong date format")
        ELSE IF TimeRejected(parts[3]) THEN Rejects("wrong time format")
        ELSE ScheduleCommand(user_id, parts[1], SchedulePriority(args),
                             StoredDate(parts[2]), StoredTime(parts[3]))

\* the messages users send with /add
AddArgs == {<<>>, <<"a">>, <<"high">>, <<"a", "high">>}

\* the messages users send with /schedule: with a text, a date and a time;
\* without the text; without the date; with a word that is no date or no time
ScheduleArgs ==
    UNION {{<<"a", DateString[d], TimeString[m]>>,
            <<DateString[d], TimeString[m]>>,
            <<DateString[d], TimeString[m], "high">>,
            <<"a", TimeString[m]>>,
            <<"a", TimeString[m], "high">>,
            <<"a", "a", TimeString[m]>>,
            <<"a", DateString[d], "a">>} : d \in Days, m \in Times}

\* the users whose /add and /schedule messages are followed word by word
Senders == {1}

\* Create, by the words of the message
CreateArgs ==
    \/ \E u \in Senders, args \in AddArgs : AddTaskCommandArgs(u, args)
    \/ \E u \in Senders, args \in ScheduleArgs : ScheduleCommandArgs(u, args)

\* the bot with the handlers taking the words of the messages
NextInput ==
    \/ CreateArgs
    \/ Complete
    \/ ClockAdvance
    \/ RunCheck
    \/ \E c \in 1..Len(coros) : CoroStart(c)
    \/ \E c \in 1..Len(coros) : SendOk(c)
    \/ \E c \in 1..Len(coros) : SendFail(c)
    \/ FutureResult
    \/ FutureTimeout

SpecInput == Init /\ [][NextInput]_vars

\* ------------------------------------------------- a bot started on a file

\* the schedules a task of tasks.json may carry: none, or a date and a time
\* of which each is well formed or not
LoadedSchedules ==
    {<<None, None>>} \cup ((Days \cup {Malformed}) \X (Times \cup {Malformed}))

\* the tasks tasks.json may hold at position i when the bot starts at now
LoadedTasks(i, now) ==
    {[id             |-> i,
      text           |-> x,
      user_id        |-> u,
      priority       |-> DefaultPriority,
      completed      |-> c,
      created_at     |-> a,
      completed_at   |-> IF c THEN a ELSE None,
      scheduled_date |-> sd[1],
      scheduled_time |-> sd[2]] :
        x \in Texts, u \in Users, c \in BOOLEAN, a \in 0..now, sd \in LoadedSchedules}

\* load_tasks: the lists of n tasks json.load may return
RECURSIVE LoadedLists(_, _)
LoadedLists(n, now) ==
    IF n = 0 THEN {<<>>}
    ELSE {Append(ts, task) : ts \in LoadedLists(n - 1, now), task \in LoadedTasks(n, now)}

LoadTasks(now) == UNION {LoadedLists(n, now) : n \in 0..MaxTasks}

\* the state after TaskManager() has loaded tasks.json
InitLoaded ==
    /\ clock \in 0..MaxClock
    /\ tasks \in LoadTasks(clock)
    /\ disk = tasks
    /\ ret = NoCall
    /\ coros = <<>>
    /\ future = "none"
    /\ timers = 1
    /\ sent = [t \in 1..MaxTasks |-> 0]
    /\ failed = {}
    /\ overlapped = {}
    /\ shown = NoQuery
    /\ running = TRUE

\* today_command: /today
TodayCommand(user_id) ==
    /\ shown' = Queried("today", user_id, NoFilter, GetTodayTasks(tasks, user_id, clock))
    /\ UNCHANGED <<tasks, disk, clock, ret, coros, future, timers, sent, failed, overlapped, running>>

\* a call of get_user_tasks: by list_command and get_reminders with
\* completed=False, by completed_command with completed=True, and with the
\* default of the parameter
UserTasksQuery(user_id, completed) ==
    /\ shown' = Queried("list", user_id, completed, GetUserTasks(tasks, user_id, completed))
    /\ UNCHANGED <<tasks, disk, clock, ret, coros, future, timers, sent, failed, overlapped, running>>

\* the queries of a store loaded from the file
NextQuery ==
    \/ \E u \in Users : TodayCommand(u)
    \/ \E u \in Users, f \in Filters : UserTasksQuery(u, f)
    \/ ClockAdvance

SpecQuery == InitLoaded /\ [][NextQuery]_vars

\* the scheduler of a bot started on a file
NextLoad ==
    \/ ClockAdvance
    \/ RunCheck
    \/ \E c \in 1..Len(coros) : CoroStart(c)
    \/ \E c \in 1..Len(coros) : SendOk(c)
    \/ \E c \in 1..Len(coros) : SendFail(c)
    \/ FutureResult
    \/ FutureTimeout

SpecLoad == InitLoaded /\ [][NextLoad]_vars

\* ------------------------------------------------- a store that cannot save

\* save_tasks when open or json.dump raises: the exception is logged and
\* swallowed (lines 88-89), and the file keeps what it held
SaveTasksFails(file, ts) == file

\* add_task_command when the save of add_task fails: add_task has appended
\* the task (line 118) and returns its id all the same (line 121)
AddTaskCommandSaveFails(user_id, text, priority) ==
    /\ Len(tasks) < MaxTasks
    /\ tasks' = AddTask(tasks, text, user_id, priority, None, None, clock)
    /\ disk' = SaveTasksFails(disk, tasks')
    /\ ret' = Returned("add", NextTaskId(tasks), TRUE)
    /\ UNCHANGED <<clock, coros, future, timers, sent, failed, overlapped, shown, running>>

\* schedule_command when the save of add_task fails
ScheduleCommandSaveFails(user_id, text, priority, scheduled_date, scheduled_time) ==
    /\ Len(tasks) < MaxTasks
    /\ tasks' = AddTask(tasks, text, user_id, priority, scheduled_date, scheduled_time, clock)
    /\ disk' = SaveTasksFails(disk, tasks')
    /\ ret' = Returned("add", NextTaskId(tasks), TRUE)
    /\ UNCHANGED <<clock, coros, future, timers, sent, failed, overlapped, shown, running>>

\* done_command when the save of mark_task_done fails: the task is marked
\* (lines 152-153) and mark_task_done returns True all the same (line 156)
DoneCommandSaveFails(user_id, task_id) ==
    /\ MarkTaskDoneRet(tasks, user_id, task_id)
    /\ tasks' = MarkTaskDone(tasks, user_id, task_id, clock)
    /\ disk' = SaveTasksFails(disk, tasks')
    /\ ret' = Returned("done", 0, TRUE)
    /\ UNCHANGED <<clock, coros, future, timers, sent, failed, overlapped, shown, running>>

\* send_message returned and the save of line 598 fails: the schedule is
\* cleared in memory (lines 596-597) and the loop goes on
SendOkSaveFails(c) ==
    /\ coros[c].pc = "awaiting"
    /\ LET t == Awaited(c)
       IN  /\ tasks' = [tasks EXCEPT ![t] = ClearSchedule(tasks[t])]
           /\ disk' = SaveTasksFails(disk, tasks')
           /\ sent' = [sent EXCEPT ![t] = @ + 1]
           /\ failed' = failed \ {t}
           /\ overlapped' = overlapped \cup
                  {<<t, u>> : u \in (coros[c].seen + 1)..Len(tasks)}
           /\ Continue(c, coros[c], tasks', coros[c].i + 1)
    /\ UNCHANGED <<clock, ret, timers, shown, running>>

\* Create with a save that fails
CreateSaveFails ==
    \/ \E u \in Users, x \in Texts, p \in InputPriorities :
           AddTaskCommandSaveFails(u, x, p)
    \/ \E u \in Users, x \in Texts, p \in InputPriorities, d \in Days, m \in Times :
           ScheduleCommandSaveFails(u, x, p, d, m)

\* Complete with a save that fails
CompleteSaveFails == \E u \in Users, k \in TaskIds : DoneCommandSaveFails(u, k)

\* the bot on a file system on which a write may fail, with a Telegram that
\* answers every send_message within the ten seconds run_check waits
NextIO ==
    \/ Create
    \/ CreateSaveFails
    \/ Complete
    \/ CompleteSaveFails
    \/ ClockAdvance
    \/ RunCheck
    \/ \E c \in 1..Len(coros) : CoroStart(c)
    \/ \E c \in 1..Len(coros) : SendOk(c)
    \/ \E c \in 1..Len(coros) : SendOkSaveFails(c)
    \/ \E c \in 1..Len(coros) : SendFail(c)
    \/ FutureResult

SpecIO == Init /\ [][NextIO]_vars

\* ------------------------------------------------------ the end of polling

\* line 818: run_polling gets SIGINT, SIGTERM or SIGABRT and shuts the
\* application down; main then returns, and the timer threads, which are
\* daemons (lines 670, 675), end with the process.  Nothing tells run_check
\* or a pending Timer about it
StopPolling ==
    /\ running
    /\ running' = FALSE
    /\ UNCHANGED <<tasks, disk, clock, ret, coros, future, timers, sent, failed,
                   overlapped, shown>>

\* run_check once the event loop is closed: run_coroutine_threadsafe raises
\* RuntimeError, which line 665 catches, and finally is still to run
RunCheckLoopClosed ==
    /\ ~running
    /\ timers > 0
    /\ future = "none"
    /\ timers' = timers - 1
    /\ future' = "raised"
    /\ UNCHANGED <<tasks, disk, clock, ret, coros, sent, failed, overlapped, shown,
                   running>>

\* the bot up to and after the signal that stops it: handlers run while the
\* application polls; the timer thread and the coroutines on the loop go on
\* until the process ends
NextStop ==
    \/ running /\ Create
    \/ running /\ Complete
    \/ ClockAdvance
    \/ StopPolling
    \/ RunCheck
    \/ RunCheckLoopClosed
    \/ \E c \in 1..Len(coros) : CoroStart(c)
    \/ \E c \in 1..Len(coros) : SendOk(c)
    \/ \E c \in 1..Len(coros) : SendFail(c)
    \/ FutureResult

SpecStop == Init /\ [][NextStop]_vars

\* ------------------------------------------------------------------ claims

\* the tasks get_scheduled_tasks returns
ScheduledSet(ts) == {GetScheduledTasks(ts)[k] : k \in 1..Len(GetScheduledTasks(ts))}

\* the task's scheduled date-time is at or before now
DueAt(task, now) ==
    /\ task.scheduled_date # None
    /\ task.scheduled_time # None
    /\ task.scheduled_date * DayLen + task.scheduled_time <= now

\* both schedule fields of the task are absent
Cleared(task) == task.scheduled_date = None /\ task.scheduled_time = None

\* the step ends the coroutine at position c
Ends(c) == Len(coros') < Len(coros) /\ (CoroStart(c) \/ SendOk(c) \/ SendFail(c))

\* C1: no task ever receives two reminders: send_message succeeds at most
\* once per task, whatever the ticks and the foreground operations do, also
\* when a tick is still waiting for send_message as the next tick starts.
C1_AtMostOneReminder == \A t \in 1..MaxTasks : sent[t] <= 1

\* C2: when a task u is created while a tick is between its read of the
\* scheduled tasks and its clear-and-save of another task t, the file
\* afterwards holds both u, as it is in memory, and t with its schedule
\* cleared.
C2_CreateAndFireBothPersist ==
    \A p \in overlapped :
        /\ p[2] <= Len(disk)
        /\ disk[p[2]] = tasks[p[2]]
        /\ disk[p[2]].id = p[2]
        /\ Cleared(disk[p[1]])

\* C2, its case: a tick fired t after u had been created during it, and every
\* coroutine has finished.
C2_Witness == overlapped # {} /\ coros = <<>>

\* C3: no foreground Create or Complete changes the store while a tick is
\* between its read of the scheduled tasks and its clear-and-save, that is
\* while a coroutine waits for send_message.
C3_TickNotInterleaved ==
    [][(Create \/ (Complete /\ tasks' # tasks))
          => \A c \in 1..Len(coros) : coros[c].pc # "awaiting"]_vars

\* C4: Complete of an uncompleted task of the caller returns true, and
\* Complete of a task of the caller that is already completed returns false
\* and leaves the task list and the file as they are.
C4_CompleteIdempotent ==
    [][\A u \in Users, k \in TaskIds :
          \A i \in 1..Len(tasks) :
              (DoneCommand(u, k) /\ tasks[i].id = k /\ tasks[i].user_id = u)
                  => IF tasks[i].completed
                     THEN ~ret'.ok /\ tasks' = tasks /\ disk' = disk
                     ELSE ret'.ok /\ tasks'[i].completed]_vars

\* C5: Complete with an id no task has, or with the id of a task of another
\* owner, returns false and leaves the task list and the file as they are.
C5_CompleteNoMatch ==
    [][\A u \in Users, k \in TaskIds :
          (DoneCommand(u, k)
             /\ ~\E i \in 1..Len(tasks) : tasks[i].id = k /\ tasks[i].user_id = u)
              => (ret'.op = "done" /\ ~ret'.ok /\ tasks' = tasks /\ disk' = disk)]_vars

\* C5, its case: the store holds a task and the last Complete found none to
\* complete.
C5_Witness == Len(tasks) > 0 /\ ret.op = "done" /\ ~ret.ok

\* C6: every Create returns the id of the task it added, which is greater
\* than the id of every task the store held before; no two tasks share an id.
C6_IdsIncrease ==
    /\ [](\A i, j \in 1..Len(tasks) : i # j => tasks[i].id # tasks[j].id)
    /\ [][Len(tasks') > Len(tasks)
            => /\ ret'.op = "add"
               /\ ret'.id = tasks'[Len(tasks')].id
               /\ \A i \in 1..Len(tasks) : tasks[i].id < ret'.id]_vars

\* C6, its case: a Create into a store that already held a task has returned.
C6_Witness == Len(tasks) >= 2 /\ ret.op = "add" /\ ret.id = tasks[Len(tasks)].id

\* C7: a task is completed if and only if its completed_at is present.
C7_CompletedIffStamped ==
    \A i \in 1..Len(tasks) : tasks[i].completed <=> tasks[i].completed_at # None

\* C7, its case: the store holds a completed task and an uncompleted one.
C7_Witness ==
    /\ \E i \in 1..Len(tasks) : tasks[i].completed
    /\ \E i \in 1..Len(tasks) : ~tasks[i].completed

\* C8: when send_message fails for a task, the step leaves its scheduled date
\* and time as they were and the task, if uncompleted, among the scheduled
\* tasks; a schedule is cleared only by a successful send; and a tick that
\* started after the send of a task had failed, with that task in its list,
\* still uncompleted, scheduled and due, does not end before it reached it.
C8_FailedSendRetried ==
    [][/\ \A c \in 1..Len(coros) :
             (SendFail(c) /\ DueAt(tasks[Awaited(c)], coros[c].now)) =>
                 /\ tasks'[Awaited(c)].scheduled_date = tasks[Awaited(c)].scheduled_date
                 /\ tasks'[Awaited(c)].scheduled_time = tasks[Awaited(c)].scheduled_time
                 /\ ~tasks'[Awaited(c)].completed => Awaited(c) \in ScheduledSet(tasks')
       /\ \A t \in 1..Len(tasks) :
             (~Cleared(tasks[t]) /\ Cleared(tasks'[t])) => sent'[t] = sent[t] + 1
       /\ \A c \in 1..Len(coros) :
             (coros[c].pc = "awaiting" /\ Ends(c)) =>
                 \A j \in (coros[c].i + 1)..Len(coros[c].scheduled) :
                     ~(/\ coros[c].scheduled[j] \in coros[c].retry
                       /\ ~tasks'[coros[c].scheduled[j]].completed
                       /\ DueAt(tasks'[coros[c].scheduled[j]], coros[c].now))]_vars

\* C9: a failed send does not end the tick while a later task of its list is
\* scheduled and due: the coroutine stays on the loop and goes on to that task.
C9_FailureDoesNotAbort ==
    [][\A c \in 1..Len(coros) :
          (SendFail(c)
             /\ \E j \in (coros[c].i + 1)..Len(coros[c].scheduled) :
                    DueAt(tasks[coros[c].scheduled[j]], coros[c].now))
              => /\ Len(coros') = Len(coros)
                 /\ coros'[c].pc = "awaiting"
                 /\ coros'[c].i > coros[c].i]_vars

\* the list of scheduled tasks the coroutine at position c works on
TickList(c) ==
    IF coros[c].pc = "queued" THEN GetScheduledTasks(tasks) ELSE coros[c].scheduled

\* the time the coroutine at position c took as now
TickNow(c) == IF coros[c].pc = "queued" THEN clock ELSE coros[c].now

\* C10: an uncompleted task that is due when a tick starts is among the
\* scheduled tasks the tick reads, and when a tick ends without a failed send
\* every task of its list either has both schedule fields cleared and is no
\* longer among the scheduled tasks, or has both and is not yet due at the
\* tick's now.
C10_DueTaskFired ==
    [][\A c \in 1..Len(coros) :
          /\ CoroStart(c) =>
                 \A t \in 1..Len(tasks) :
                     (~tasks[t].completed /\ DueAt(tasks[t], clock))
                         => t \in ScheduledSet(tasks)
          /\ (Ends(c) /\ ~SendFail(c)) =>
                 \A j \in 1..Len(TickList(c)) :
                     \/ /\ Cleared(tasks'[TickList(c)[j]])
                        /\ TickList(c)[j] \notin ScheduledSet(tasks')
                     \/ /\ tasks'[TickList(c)[j]].scheduled_date # None
                        /\ tasks'[TickList(c)[j]].scheduled_time # None
                        /\ ~DueAt(tasks'[TickList(c)[j]], TickNow(c))]_vars

\* C10, its case: a tick has just ended without a failed send and a task it
\* sent the reminder of has its schedule cleared.
C10_Witness ==
    /\ future = "done"
    /\ coros = <<>>
    /\ \E t \in 1..Len(tasks) : sent[t] = 1 /\ Cleared(tasks[t])

\* C11: a task whose scheduled date-time is after the clock is not treated as
\* due: no step sends its reminder or changes its scheduled date or time,
\* whatever ticks run in the meantime.
C11_FutureTaskNotFired ==
    [][\A t \in 1..Len(tasks) :
          (/\ tasks[t].scheduled_date # None
           /\ tasks[t].scheduled_time # None
           /\ ~DueAt(tasks[t], clock))
              => /\ sent'[t] = sent[t]
                 /\ tasks'[t].scheduled_date = tasks[t].scheduled_date
                 /\ tasks'[t].scheduled_time = tasks[t].scheduled_time]_vars

\* C11, its case: a tick fired the task u, created after the task t, while t,
\* scheduled for a time still to come, has got no reminder.
C11_Witness ==
    \E t, u \in 1..Len(tasks) :
        /\ t < u
        /\ sent[u] = 1
        /\ sent[t] = 0
        /\ HasSchedule(tasks[t])
        /\ ~DueAt(tasks[t], clock)

\* C12: when the save of a mutating operation fails, the operation reports the
\* failure to its caller (Create and Complete do not return success) and the
\* task list in memory is what it was before the operation: this for Create,
\* for Complete and for the clear of the scheduler.
C12_SaveFailureLeavesMemory ==
    [][/\ CreateSaveFails => (tasks' = tasks /\ ~ret'.ok)
       /\ CompleteSaveFails => (tasks' = tasks /\ ~ret'.ok)
       /\ \A c \in 1..Len(coros) : SendOkSaveFails(c) => tasks' = tasks]_vars

\* what every step of add_task_command and schedule_command leaves as it is
\* and what it never returns
CreateStep ==
    /\ ret'.op # "done"
    /\ UNCHANGED <<clock, coros, future, timers>>

\* the /schedule messages with a date and a time and no text
NoTextArgs ==
    UNION {{<<DateString[d], TimeString[m]>>,
            <<DateString[d], TimeString[m], "high">>} : d \in Days, m \in Times}

\* C13: a Create with an empty text fails validation and adds nothing: /add
\* without words, and /schedule with a date and a time but no text, reply with
\* an error and leave the task list and the file as they are; and in every
\* state ListByOwner returns, for no owner, a task with an empty text.
C13_EmptyTextRejected ==
    /\ [](\A u \in Users :
            \A i \in 1..Len(GetUserTasks(tasks, u, NoFilter)) :
                GetUserTasks(tasks, u, NoFilter)[i].text # "")
    /\ [][(/\ CreateStep
            /\ \/ \E u \in Senders : AddTaskCommandArgs(u, <<>>)
               \/ \E u \in Senders, args \in NoTextArgs : ScheduleCommandArgs(u, args))
              => (ret'.op # "add" /\ ~ret'.ok /\ tasks' = tasks /\ disk' = disk)]_vars

\* C13, its case: /add without words has been rejected while the store holds
\* tasks ListByOwner returns.
C13_Witness ==
    /\ ret.op = "no task given"
    /\ \E u \in Users : GetUserTasks(tasks, u, NoFilter) # <<>>

\* the words name a time and no date
TimeWithoutDate(args) ==
    /\ \E k \in 1..Len(args) : StrpTime(args[k]) # None
    /\ \A k \in 1..Len(args) : StrpDate(args[k]) = None

\* the /schedule messages with a time and no date
TimeOnlyArgs == {args \in ScheduleArgs : TimeWithoutDate(args)}

\* C14: a Create with a time and no date fails validation and leaves the task
\* list and the file as they are; in every state a task with a
\* scheduled_time has a scheduled_date.
C14_TimeWithoutDateRejected ==
    /\ [](\A i \in 1..Len(tasks) :
            tasks[i].scheduled_time # None => tasks[i].scheduled_date # None)
    /\ [][(/\ CreateStep
            /\ \E u \in Senders, args \in TimeOnlyArgs : ScheduleCommandArgs(u, args))
              => (ret'.op # "add" /\ ~ret'.ok /\ tasks' = tasks /\ disk' = disk)]_vars

\* C14, its case: /schedule with a text and a time, and a word that is no date
\* in between, has been rejected while the store holds a task with a time.
C14_Witness ==
    /\ ret.op = "wrong date format"
    /\ \E i \in 1..Len(tasks) : tasks[i].scheduled_time # None

\* result holds exactly the tasks of ts that satisfy Wanted, each once, in the
\* order of their creation
IsSelection(result, ts, Wanted(_)) ==
    /\ \A k \in 1..Len(result) :
           \E i \in 1..Len(ts) : ts[i] = result[k] /\ Wanted(ts[i])
    /\ \A i \in 1..Len(ts) :
           Wanted(ts[i]) => \E k \in 1..Len(result) : result[k] = ts[i]
    /\ \A k, l \in 1..Len(result) : k < l => result[k].id < result[l].id

\* the task was created on the day today
CreatedOn(task, today) == task.created_at \div DayLen = today

\* C15: TasksDueToday(owner) returns exactly the uncompleted tasks of the
\* owner that were created today or whose scheduled date is today, in list
\* order: not a completed task, not a task of another owner, and not a task
\* created earlier whose scheduled date is malformed, which is skipped.
C15_TasksDueToday ==
    [][\A u \in Users :
          TodayCommand(u) =>
              /\ shown'.op = "today"
              /\ IsSelection(shown'.tasks, tasks,
                     LAMBDA task :
                         /\ task.user_id = u
                         /\ ~task.completed
                         /\ \/ CreatedOn(task, clock \div DayLen)
                            \/ /\ task.scheduled_date \in Days
                               /\ task.scheduled_date = clock \div DayLen)]_vars

\* C15, its case: /today has returned a task created today without a schedule
\* and a task created before today and scheduled for today.
C15_Witness ==
    /\ shown.op = "today"
    /\ \E k, l \in 1..Len(shown.tasks) :
           /\ CreatedOn(shown.tasks[k], clock \div DayLen)
           /\ shown.tasks[k].scheduled_date = None
           /\ ~CreatedOn(shown.tasks[l], clock \div DayLen)
           /\ shown.tasks[l].scheduled_date = clock \div DayLen

\* C16: ListByOwner(owner, completedFilter) returns exactly the tasks of the
\* owner, in the order of their creation: the completed ones under the filter
\* true, the uncompleted ones under the filter false, all of them without a
\* filter, and never a task of another owner.
C16_ListByOwner ==
    [][\A u \in Users, f \in Filters :
          UserTasksQuery(u, f) =>
              /\ shown'.op = "list"
              /\ IsSelection(shown'.tasks, tasks,
                     LAMBDA task :
                         /\ task.user_id = u
                         /\ f = "True" => task.completed
                         /\ f = "False" => ~task.completed)]_vars

\* C16, its case: of two tasks of one owner, a query with the filter true has
\* returned the one that is completed.
C16_Witness ==
    /\ shown.op = "list"
    /\ shown.completed = "True"
    /\ Len(shown.tasks) = 1
    /\ Len(tasks) = 2
    /\ tasks[1].user_id = shown.user_id
    /\ tasks[2].user_id = shown.user_id

\* C17: when run_check's wait of ten seconds runs out while the tick waits for
\* send_message, that reminder counts as failed: the schedule of the task is
\* left as it is, the next timer is started, and no coroutine goes on waiting
\* for that send, which could still succeed and clear the schedule.
C17_TimeoutTreatedAsFailure ==
    [][(FutureTimeout /\ coros[Len(coros)].pc = "awaiting")
          => /\ tasks' = tasks
             /\ timers' = timers + 1
             /\ \A c \in 1..Len(coros') : coros'[c] # coros[Len(coros)]]_vars

\* C18: once the bot has been told to stop, a running tick may finish but no
\* further tick is scheduled: no new Timer is started.
C18_NoTickAfterShutdown == [][~running => timers' <= timers]_vars

\* how far in its list the coroutine at position c has come with a step: to
\* the end if the step ended it, up to the task it now sends for otherwise
PassedOver(c) ==
    IF Len(coros') < Len(coros) THEN Len(TickList(c)) ELSE coros'[c].i - 1

\* a task a tick has nothing left to do for: fired and cleared, not to be
\* parsed, or not yet due
Dealt(task, now) == ~HasSchedule(task) \/ ~Parses(task) \/ ~IsDue(task, now)

\* C19: a task whose stored date or time does not parse is never sent for and
\* keeps its fields, and the tick goes on past it: every task of the list that
\* a step of the tick has passed is fired and cleared, not to be parsed, or
\* not yet due.
C19_ParseFailureSkipped ==
    /\ [][\A t \in 1..Len(tasks) :
              ~Parses(tasks[t]) => tasks'[t] = tasks[t] /\ sent'[t] = sent[t]]_vars
    /\ [][\A c \in 1..Len(coros) :
              (CoroStart(c) \/ SendOk(c))
                  => \A k \in 1..PassedOver(c) :
                         Dealt(tasks'[TickList(c)[k]], TickNow(c))]_vars

\* C19: a reminder was sent for a task that comes after an open task whose
\* schedule does not parse.
C19_Witness ==
    \E t, u \in 1..Len(tasks) :
        /\ t < u
        /\ ~tasks[t].completed
        /\ ~Parses(tasks[t])
        /\ sent[t] = 0
        /\ sent[u] > 0
        /\ ~HasSchedule(tasks[u])

\* a step of the scheduler: of run_check or of a coroutine it started
TickStep ==
    \/ RunCheck
    \/ FutureResult
    \/ FutureTimeout
    \/ \E c \in 1..Len(coros) : CoroStart(c) \/ SendOk(c) \/ SendFail(c)

\* the coroutine at position c sends for task t and its send returns
Fires(c, t) == coros[c].pc = "awaiting" /\ Awaited(c) = t /\ SendOk(c)

\* C20: a step of the scheduler adds and removes no task, and leaves every
\* task as it was except the task it fires, of which it changes only
\* scheduled_date and scheduled_time, setting both to None.
C20_TickFrame ==
    [][TickStep
          => /\ Len(tasks') = Len(tasks)
             /\ \A t \in 1..Len(tasks) :
                    \/ tasks'[t] = tasks[t]
                    \/ /\ \E c \in 1..Len(coros) : Fires(c, t)
                       /\ tasks'[t] = [tasks[t] EXCEPT !.scheduled_date = None,
                                                      !.scheduled_time = None]]_vars

\* C20: a tick has fired one task, which kept its text and is still open,
\* while another task, not fired, still has its schedule.
C20_Witness ==
    \E t, u \in 1..Len(tasks) :
        /\ t # u
        /\ sent[t] > 0
        /\ tasks[t].scheduled_date = None
        /\ tasks[t].scheduled_time = None
        /\ ~tasks[t].completed
        /\ sent[u] = 0
        /\ HasSchedule(tasks[u])

\* the scheduler has sent for task t and its schedule is cleared
FiredAndCleared(ts, t) ==
    /\ sent[t] > 0
    /\ ts[t].scheduled_date = None
    /\ ts[t].scheduled_time = None

\* C21: once the scheduler has cleared the schedule of a task it fired, no
\* step makes scheduled_date or scheduled_time of that task present again,
\* and get_scheduled_tasks does not return the task.
C21_FiringIrreversible ==
    [][\A t \in 1..Len(tasks) :
          FiredAndCleared(tasks, t)
              => /\ t \in 1..Len(tasks')
                 /\ FiredAndCleared(tasks', t)
                 /\ t \notin ScheduledSet(tasks')]_vars

\* C21: a task was fired and cleared and then completed, and a tick that read
\* the list with that task in it is sending for another task.
C21_Witness ==
    \E t \in 1..Len(tasks) :
        /\ FiredAndCleared(tasks, t)
        /\ tasks[t].completed
        /\ \E c \in 1..Len(coros) :
               /\ coros[c].pc = "awaiting"
               /\ Awaited(c) # t
               /\ coros[c].seen >= t

\* the tasks a step has changed
Changed == {t \in 1..Len(tasks) : t > Len(tasks') \/ tasks'[t] # tasks[t]}

\* C22: no step removes a task or changes the id, the owner or created_at of
\* a task in the list, and a /done changes at most one task, a task with the
\* id and the owner it was called with, in completed and completed_at only.
C22_TasksKeptAndCompleteFrame ==
    [][/\ Len(tasks') >= Len(tasks)
       /\ \A t \in 1..Len(tasks) :
              /\ tasks'[t].id = tasks[t].id
              /\ tasks'[t].user_id = tasks[t].user_id
              /\ tasks'[t].created_at = tasks[t].created_at
       /\ (tasks' # tasks /\ ret'.op = "done")
              => \A u \in Users, k \in TaskIds :
                     DoneCommand(u, k)
                         => /\ Len(tasks') = Len(tasks)
                            /\ Cardinality(Changed) <= 1
                            /\ \A t \in Changed :
                                   /\ tasks[t].id = k
                                   /\ tasks[t].user_id = u
                                   /\ tasks'[t] =
                                          [tasks[t] EXCEPT
                                              !.completed = tasks'[t].completed,
                                              !.completed_at = tasks'[t].completed_at]]_vars

\* C22: a /done has just completed the first of two tasks of one owner, later
\* than it was created; the task kept its schedule and the other task is open.
C22_Witness ==
    /\ ret = Returned("done", 0, TRUE)
    /\ Len(tasks) = 2
    /\ tasks[1].user_id = tasks[2].user_id
    /\ tasks[1].completed
    /\ tasks[1].completed_at > tasks[1].created_at
    /\ HasSchedule(tasks[1])
    /\ ~tasks[2].completed

\* the coroutine at position c has, with this step, called send_message for
\* the next task of its list
Invokes(c) == (CoroStart(c) \/ SendOk(c)) /\ Len(coros') = Len(coros)

\* C23: the task a coroutine calls send_message for is not completed at the
\* moment of the call.
C23_NoReminderForCompleted ==
    [][\A c \in 1..Len(coros) :
          Invokes(c) => ~tasks'[coros'[c].scheduled[coros'[c].i]].completed]_vars

\* run_check is running, or one Timer is pending to run it, and never both
OneNextTick == timers + (IF future = "none" THEN 0 ELSE 1) = 1

\* C24: at every moment exactly one tick is either running or scheduled, so
\* every tick, however it ends, is followed by one Timer for the next; and
\* ticks recur for ever: again and again run_check has just started a tick.
C24_TicksForever ==
    /\ []OneNextTick
    /\ []<>(future = "pending")

\* C24: a tick that timed out with its coroutine left on the loop has been
\* followed by a tick that runs while that coroutine still waits.
C24_Witness ==
    /\ future = "pending"
    /\ Len(coros) = 2
    /\ coros[1].pc = "awaiting"

====
